---------------------------- MODULE Spec2Model ----------------------------
(***************************************************************************)
(* Model of veins/base/toolbox/SignalUtils.cc: aggregate interference of   *)
(* overlapping, time-bounded signals on a shared spectrum.                 *)
(*                                                                         *)
(* A frame is a record [id, rs, re, pw, st, ap]: its tree id, the          *)
(* reception start and end of its signal, the signal's power per frequency *)
(* bin (bins are numbered 1..numFreqs here, 0..n-1 in the source), the     *)
(* list of attenuation stages of the signal and how many of them have been *)
(* applied.  A frame's identity (the AirFrame pointer of the source) is    *)
(* its position in the collection; 0 stands for a null pointer or a frame  *)
(* that is not in the collection.  Times and powers are integers; the      *)
(* source uses simtime_t and double.                                       *)
(***************************************************************************)
EXTENDS Integers, Sequences, FiniteSets

VARIABLES
    numFreqs,   \* number of bins of the spectrum all signals share
    frames,     \* the AirFrameVector handed to the call
    query,      \* the call's other arguments
    pc,         \* "ready": before the call; "done": the call has ended
    op,         \* the function that was called
    entry,      \* history: the collection as it was when the call began
    result      \* what the call produced

vars == <<numFreqs, frames, query, pc, op, entry, result>>

\* ------------------------------------------------------------------ bounds
\* the largest collection of frames handed to a call
MaxFrames == 2

\* the values the inputs are drawn from
Times == 0..3          \* reception and query times
Powers == {1, 2}       \* power samples of a signal
Spectra == {1, 2}      \* sizes of the spectrum

\* ------------------------------------------------- Signal (external type)
Max2(a, b) == IF a >= b THEN a ELSE b

SetMax(S) == CHOOSE m \in S : \A x \in S : x <= m
SetMin(S) == CHOOSE m \in S : \A x \in S : m <= x

\* Signal(spectrum): all samples zero
ZeroSignal(n) == [b \in 1..n |-> 0]
\* Signal::operator+=
SigAdd(a, b) == [k \in DOMAIN a |-> a[k] + b[k]]
\* Signal::operator-=
SigSub(a, b) == [k \in DOMAIN a |-> a[k] - b[k]]
\* Signal::getMax: the largest sample
getMax(v) == CHOOSE m \in {v[k] : k \in DOMAIN v} : \A k \in DOMAIN v : v[k] <= m
\* Signal::getDataMin: the smallest sample of the data range (every signal of
\* the model is populated over the whole spectrum)
getDataMin(v) == CHOOSE m \in {v[k] : k \in DOMAIN v} : \A k \in DOMAIN v : v[k] >= m

\* ------------------------------------------------------ calculateChanges
\* a slip: a signal that starts at the instant of a point query is not
\* looked at separately
IsPointStartNever(signal, start, end) == FALSE

\* start == end && signal.getReceptionStart() == start
IsPointStart(signal, start, end) == start = end /\ signal.rs = start

\* a slip: the end of every signal kept is entered as a change
EndsInWindowAlways(signal, end) == TRUE

\* signal.getReceptionEnd() <= end
EndsInWindow(signal, end) == signal.re <= end

RECURSIVE calculateChangesFrom(_, _, _, _, _)
calculateChangesFrom(start, end, airFrames, exclude, i) ==
    IF i > Len(airFrames) THEN <<>>
    ELSE LET signal == airFrames[i]
             rest == calculateChangesFrom(start, end, airFrames, exclude, i + 1)
         IN  IF i = exclude THEN rest
             ELSE IF IsPointStart(signal, start, end)
                  THEN <<[signal |-> i, type |-> "starting", time |-> signal.rs]>> \o rest
             ELSE IF signal.rs < end /\ signal.re > start
                  THEN IF EndsInWindow(signal, end)
                       THEN <<[signal |-> i, type |-> "starting", time |-> signal.rs],
                              [signal |-> i, type |-> "ending", time |-> signal.re]>> \o rest
                       ELSE <<[signal |-> i, type |-> "starting", time |-> signal.rs]>> \o rest
             ELSE rest

calculateChanges(start, end, airFrames, exclude) ==
    calculateChangesFrom(start, end, airFrames, exclude, 1)

\* a slip: no change is ever placed before another
compareByTimeUnordered(lhs, rhs) == FALSE

\* std::sort(changes.begin(), changes.end(), compareByTime): the sort is not
\* stable, so every arrangement ascending in time is a possible outcome.
compareByTime(lhs, rhs) == lhs.time < rhs.time

RECURSIVE SortedArrangements(_, _)
SortedArrangements(changes, idx) ==
    IF idx = {} THEN {<<>>}
    ELSE LET firsts == {i \in idx : \A j \in idx : ~compareByTime(changes[j], changes[i])}
         IN  UNION {{<<changes[i]>> \o t : t \in SortedArrangements(changes, idx \ {i})} : i \in firsts}

sortChanges(changes) == SortedArrangements(changes, DOMAIN changes)

\* ------------------------------------------- getGlobalMax / getGlobalMin
\* a slip: the first loop stops at a change whose time is start
IsAfterStartOrAt(change, start) == change.time >= start

\* if (it->time > start) break;
IsAfterStart(change, start) == change.time > start

\* the first loop: every change with time <= start is added, whatever its type
RECURSIVE PreRoll(_, _, _, _, _)
PreRoll(airFrames, changes, start, it, interference) ==
    IF it > Len(changes) \/ IsAfterStart(changes[it], start)
    THEN [it |-> it, interference |-> interference]
    ELSE PreRoll(airFrames, changes, start, it + 1,
                 SigAdd(interference, airFrames[changes[it].signal].pw))

ApplyChange(airFrames, change, interference) ==
    IF change.type = "starting" THEN SigAdd(interference, airFrames[change.signal].pw)
    ELSE IF change.type = "ending" THEN SigSub(interference, airFrames[change.signal].pw)
    ELSE interference

\* a slip: the extremum is taken after every change, also inside a tie
AtBoundaryEveryChange(changes, it) == TRUE

\* next == changes.end() || it->time != next->time
AtBoundary(changes, it) == it = Len(changes) \/ changes[it].time # changes[it + 1].time

RECURSIVE SweepMax(_, _, _, _, _)
SweepMax(airFrames, changes, it, interference, maximum) ==
    IF it > Len(changes) THEN maximum
    ELSE LET cur == ApplyChange(airFrames, changes[it], interference)
             tmpMax == getMax(cur)
         IN  SweepMax(airFrames, changes, it + 1, cur,
                      IF AtBoundary(changes, it) /\ tmpMax > maximum THEN tmpMax ELSE maximum)

getGlobalMaxSorted(start, airFrames, changes) ==
    IF changes = <<>> THEN 0
    ELSE LET pre == PreRoll(airFrames, changes, start, 1, ZeroSignal(Len(airFrames[1].pw)))
         IN  SweepMax(airFrames, changes, pre.it, pre.interference, getMax(pre.interference))

RECURSIVE SweepMin(_, _, _, _, _)
SweepMin(airFrames, changes, it, interference, minimum) ==
    IF it > Len(changes) THEN minimum
    ELSE LET cur == ApplyChange(airFrames, changes[it], interference)
             tmpMin == getDataMin(cur)
         IN  SweepMin(airFrames, changes, it + 1, cur,
                      IF AtBoundary(changes, it) /\ tmpMin < minimum THEN tmpMin ELSE minimum)

getGlobalMinSorted(start, airFrames, changes) ==
    IF changes = <<>> THEN 0
    ELSE LET pre == PreRoll(airFrames, changes, start, 1, ZeroSignal(Len(airFrames[1].pw)))
         IN  SweepMin(airFrames, changes, pre.it, pre.interference, getDataMin(pre.interference))

\* One run of a sweep, for the arrangement the sort produced. value: what is
\* returned; changes: the sorted changes; consumed: how many of them the
\* first loop added; preroll: the accumulator when the first loop ended
\* (<<>> when the call returned before an accumulator was made).
getGlobalMaxRun(start, airFrames, changes) ==
    LET pre == IF changes = <<>> THEN [it |-> 1, interference |-> <<>>]
               ELSE PreRoll(airFrames, changes, start, 1, ZeroSignal(Len(airFrames[1].pw)))
    IN  [value |-> getGlobalMaxSorted(start, airFrames, changes), changes |-> changes,
         consumed |-> pre.it - 1, preroll |-> pre.interference]

getGlobalMinRun(start, airFrames, changes) ==
    LET pre == IF changes = <<>> THEN [it |-> 1, interference |-> <<>>]
               ELSE PreRoll(airFrames, changes, start, 1, ZeroSignal(Len(airFrames[1].pw)))
    IN  [value |-> getGlobalMinSorted(start, airFrames, changes), changes |-> changes,
         consumed |-> pre.it - 1, preroll |-> pre.interference]

\* the runs a call can make: one per outcome of the sort
getGlobalMaxRuns(start, end, airFrames) ==
    IF airFrames = <<>> THEN {getGlobalMaxRun(start, airFrames, <<>>)}
    ELSE {getGlobalMaxRun(start, airFrames, c) :
              c \in sortChanges(calculateChanges(start, end, airFrames, 0))}

getGlobalMinRuns(start, end, airFrames) ==
    IF airFrames = <<>> THEN {getGlobalMinRun(start, airFrames, <<>>)}
    ELSE {getGlobalMinRun(start, airFrames, c) :
              c \in sortChanges(calculateChanges(start, end, airFrames, 0))}

\* the values a call can return: one per outcome of the sort
getGlobalMax(start, end, airFrames) ==
    IF airFrames = <<>> THEN {0}
    ELSE {getGlobalMaxSorted(start, airFrames, c) :
              c \in sortChanges(calculateChanges(start, end, airFrames, 0))}

getGlobalMin(start, end, airFrames) ==
    IF airFrames = <<>> THEN {0}
    ELSE {getGlobalMinSorted(start, airFrames, c) :
              c \in sortChanges(calculateChanges(start, end, airFrames, 0))}

\* ------------------------------------------------------ getMinAtFreqIndex
RECURSIVE PreRollAt(_, _, _, _, _, _)
PreRollAt(airFrames, changes, start, freqIndex, it, interference) ==
    IF it > Len(changes) \/ IsAfterStart(changes[it], start)
    THEN [it |-> it, interference |-> interference]
    ELSE PreRollAt(airFrames, changes, start, freqIndex, it + 1,
                   interference + airFrames[changes[it].signal].pw[freqIndex])

ApplyChangeAt(airFrames, change, freqIndex, interference) ==
    IF change.type = "starting" THEN interference + airFrames[change.signal].pw[freqIndex]
    ELSE IF change.type = "ending" THEN interference - airFrames[change.signal].pw[freqIndex]
    ELSE interference

RECURSIVE SweepMinAt(_, _, _, _, _, _)
SweepMinAt(airFrames, changes, freqIndex, it, interference, minimum) ==
    IF it > Len(changes) THEN minimum
    ELSE LET cur == ApplyChangeAt(airFrames, changes[it], freqIndex, interference)
         IN  SweepMinAt(airFrames, changes, freqIndex, it + 1, cur,
                        IF AtBoundary(changes, it) /\ cur < minimum THEN cur ELSE minimum)

getMinAtFreqIndexSorted(start, airFrames, changes, freqIndex) ==
    IF changes = <<>> THEN 0
    ELSE LET pre == PreRollAt(airFrames, changes, start, freqIndex, 1, 0)
         IN  SweepMinAt(airFrames, changes, freqIndex, pre.it, pre.interference,
                        pre.interference)

\* one run, as for the global sweeps; the accumulator is a number
getMinAtFreqIndexRun(start, airFrames, changes, freqIndex) ==
    LET pre == IF changes = <<>> THEN [it |-> 1, interference |-> 0]
               ELSE PreRollAt(airFrames, changes, start, freqIndex, 1, 0)
    IN  [value |-> getMinAtFreqIndexSorted(start, airFrames, changes, freqIndex),
         changes |-> changes, consumed |-> pre.it - 1, preroll |-> pre.interference]

getMinAtFreqIndexRuns(start, end, airFrames, freqIndex, exclude) ==
    IF airFrames = <<>> THEN {getMinAtFreqIndexRun(start, airFrames, <<>>, freqIndex)}
    ELSE {getMinAtFreqIndexRun(start, airFrames, c, freqIndex) :
              c \in sortChanges(calculateChanges(start, end, airFrames, exclude))}

getMinAtFreqIndex(start, end, airFrames, freqIndex, exclude) ==
    IF airFrames = <<>> THEN {0}
    ELSE {getMinAtFreqIndexSorted(start, airFrames, c, freqIndex) :
              c \in sortChanges(calculateChanges(start, end, airFrames, exclude))}

\* ---------------------------------------------------- getMaxInterference
\* a slip: the queue is ordered by descending reception end
IsTopLatest(airFrames, signalEndings, i) ==
    i \in signalEndings /\
    \A j \in signalEndings : ~(airFrames[i].re < airFrames[j].re)

\* signalEndings holds the positions of the frames whose signals were pushed;
\* its top is a signal of least reception end (greaterByReceptionEnd)
IsTop(airFrames, signalEndings, i) ==
    i \in signalEndings /\
    \A j \in signalEndings : ~(airFrames[i].re > airFrames[j].re)

\* a slip: the reception start is compared instead of the reception end
HasExpiredByStart(signal, currentTime) == signal.rs <= currentTime

\* a slip: a signal ending exactly at the current time is kept
HasExpiredStrict(signal, currentTime) == signal.re < currentTime

\* the condition of the while loop
HasExpired(signal, currentTime) == signal.re <= currentTime

\* the while loop: signals that ended by currentTime are taken off the total.
\* top() of an empty queue is undefined behaviour (ok = FALSE).
RECURSIVE removeEnded(_, _, _, _)
removeEnded(airFrames, signalEndings, currentTime, currentInterference) ==
    IF signalEndings = {}
    THEN [ok |-> FALSE, signalEndings |-> signalEndings, currentInterference |-> currentInterference]
    ELSE LET top == CHOOSE i \in signalEndings : IsTop(airFrames, signalEndings, i)
         IN  IF HasExpired(airFrames[top], currentTime)
             THEN removeEnded(airFrames, signalEndings \ {top}, currentTime,
                              SigSub(currentInterference, airFrames[top].pw))
             ELSE [ok |-> TRUE, signalEndings |-> signalEndings,
                   currentInterference |-> currentInterference]

\* the per-bin maximum over the signal's data range (the whole spectrum here)
updateMax(currentInterference, maxInterference) ==
    [b \in DOMAIN maxInterference |-> Max2(currentInterference[b], maxInterference[b])]

\* the two "continue" tests of the loop
IsSkipped(frame, start, end, referenceId) ==
    frame.id = referenceId \/ frame.re <= start \/ frame.rs > end

\* a slip: the order of the reception starts is not asserted
InOrderUnchecked(signal, currentTime) == TRUE

\* ASSERT(signal.getReceptionStart() >= currentTime)
InOrder(signal, currentTime) == signal.rs >= currentTime

\* the for loop from frame i on. outcome "ok": maxInterference is returned;
\* "assert": an ASSERT failed; "undefined": undefined behaviour was reached.
\* updates lists [signal, time, heap, total] at every update of the maximum:
\* the frame just added, currentTime, signalEndings and currentInterference.
RECURSIVE maxInterferenceFrom(_, _, _, _, _, _, _, _, _, _)
maxInterferenceFrom(start, end, referenceId, airFrames, i, currentTime, signalEndings, currentInterference, maxInterference, updates) ==
    IF i > Len(airFrames)
    THEN [outcome |-> "ok", value |-> maxInterference, updates |-> updates]
    ELSE LET signal == airFrames[i]
         IN  IF IsSkipped(signal, start, end, referenceId)
             THEN maxInterferenceFrom(start, end, referenceId, airFrames, i + 1, currentTime,
                                      signalEndings, currentInterference, maxInterference, updates)
             ELSE IF ~InOrder(signal, currentTime)
             THEN [outcome |-> "assert", value |-> maxInterference, updates |-> updates]
             ELSE IF signal.rs >= end
             THEN [outcome |-> "ok", value |-> maxInterference, updates |-> updates]
             ELSE LET r == removeEnded(airFrames, signalEndings \cup {i}, signal.rs,
                                       currentInterference)
                      total == SigAdd(r.currentInterference, signal.pw)
                  IN  IF ~r.ok
                      THEN [outcome |-> "undefined", value |-> maxInterference, updates |-> updates]
                      ELSE maxInterferenceFrom(start, end, referenceId, airFrames, i + 1, signal.rs,
                               r.signalEndings, total, updateMax(total, maxInterference),
                               Append(updates, [signal |-> i, time |-> signal.rs,
                                                heap |-> r.signalEndings,
                                                total |-> total]))

getMaxInterference(start, end, referenceFrame, interfererFrames) ==
    maxInterferenceFrom(start, end, referenceFrame.id, interfererFrames, 1, 0, {},
                        ZeroSignal(Len(referenceFrame.pw)), ZeroSignal(Len(referenceFrame.pw)),
                        <<>>)

\* ------------------------------------------- isChannelPowerBelowThreshold
\* An attenuation stage is the amount it takes off every sample (never below 0).
Attenuate(pw, a) == [b \in DOMAIN pw |-> Max2(pw[b] - a, 0)]

\* Signal::applyAnalogueModel(index): stage index (1-based here) filters the
\* signal in place, whether or not it was applied before
applyAnalogueModel(signal, index) ==
    IF index \in DOMAIN signal.st
    THEN [signal EXCEPT !.pw = Attenuate(signal.pw, signal.st[index]), !.ap = signal.ap + 1]
    ELSE signal

\* a slip: the excluded frame is not left out
IsInterfererNotExcluding(frame, i, now, exclude) ==
    frame.rs <= now /\ frame.re > now

\* the filter of the first loop
IsInterferer(frame, i, now, exclude) ==
    frame.rs <= now /\ frame.re > now /\ i # exclude

\* std::vector<Signal*> interferers, as the positions of their frames
RECURSIVE interferersFrom(_, _, _, _)
interferersFrom(now, interfererFrames, exclude, i) ==
    IF i > Len(interfererFrames) THEN <<>>
    ELSE (IF IsInterferer(interfererFrames[i], i, now, exclude) THEN <<i>> ELSE <<>>)
             \o interferersFrom(now, interfererFrames, exclude, i + 1)

RECURSIVE powerLevelSumFrom(_, _, _, _)
powerLevelSumFrom(interfererFrames, signals, freqIndex, k) ==
    IF k > Len(signals) THEN 0
    ELSE interfererFrames[signals[k]].pw[freqIndex]
             + powerLevelSumFrom(interfererFrames, signals, freqIndex, k + 1)

powerLevelSumAtFrequencyIndex(interfererFrames, signals, freqIndex) ==
    powerLevelSumFrom(interfererFrames, signals, freqIndex, 1)

\* the inner loop: one stage applied to every interferer, in order
RECURSIVE applyToAll(_, _, _, _)
applyToAll(interfererFrames, signals, index, k) ==
    IF k > Len(signals) THEN interfererFrames
    ELSE applyToAll([interfererFrames EXCEPT ![signals[k]] = applyAnalogueModel(@, index)],
                    signals, index, k + 1)

\* a slip: the sum is taken before the stage is applied
StageBelowBeforeApplying(before, after, signals, freqIndex, threshold) ==
    powerLevelSumAtFrequencyIndex(before, signals, freqIndex) < threshold

\* the test after a stage: before and after are the collection before and
\* after the stage was applied
StageBelow(before, after, signals, freqIndex, threshold) ==
    powerLevelSumAtFrequencyIndex(after, signals, freqIndex) < threshold

\* the outer loop from stage index on; applied lists the <<frame, stage>>
\* pairs in the order they were applied
RECURSIVE applyStages(_, _, _, _, _, _, _)
applyStages(interfererFrames, signals, freqIndex, threshold, analogueModelCount, index, applied) ==
    IF index > analogueModelCount
    THEN [outcome |-> IF powerLevelSumAtFrequencyIndex(interfererFrames, signals, freqIndex) >= threshold
                      THEN "false" ELSE "assert",
          frames |-> interfererFrames, applied |-> applied]
    ELSE LET after == applyToAll(interfererFrames, signals, index, 1)
             log == applied \o [k \in 1..Len(signals) |-> <<signals[k], index>>]
         IN  IF StageBelow(interfererFrames, after, signals, freqIndex, threshold)
             THEN [outcome |-> "true", frames |-> after, applied |-> log]
             ELSE applyStages(after, signals, freqIndex, threshold, analogueModelCount,
                              index + 1, log)

\* a slip: the stage counts are not compared
CountsUnchecked(interfererFrames, signals, analogueModelCount) == TRUE

\* the ASSERT loop: every interferer carries analogueModelCount stages
CountsConsistent(interfererFrames, signals, analogueModelCount) ==
    \A k \in 1..Len(signals) :
        analogueModelCount = Len(interfererFrames[signals[k]].st)

\* "check once before applying analogModels"
EntryBelow(interfererFrames, signals, freqIndex, threshold) ==
    powerLevelSumAtFrequencyIndex(interfererFrames, signals, freqIndex) < threshold

\* a slip: the stages are applied without a first look at the sum
isChannelPowerBelowThresholdNoFirstCheck(now, interfererFrames, freqIndex, threshold, exclude) ==
    IF interfererFrames = <<>>
    THEN [outcome |-> "true", frames |-> interfererFrames, applied |-> <<>>]
    ELSE LET interferers == interferersFrom(now, interfererFrames, exclude, 1)
             analogueModelCount == Len(interfererFrames[1].st)
         IN  IF ~CountsConsistent(interfererFrames, interferers, analogueModelCount)
             THEN [outcome |-> "assert", frames |-> interfererFrames, applied |-> <<>>]
             ELSE applyStages(interfererFrames, interferers, freqIndex, threshold,
                              analogueModelCount, 1, <<>>)

\* outcome "true" / "false": the value returned; "assert": an ASSERT failed
isChannelPowerBelowThreshold(now, interfererFrames, freqIndex, threshold, exclude) ==
    IF interfererFrames = <<>>
    THEN [outcome |-> "true", frames |-> interfererFrames, applied |-> <<>>]
    ELSE LET interferers == interferersFrom(now, interfererFrames, exclude, 1)
             analogueModelCount == Len(interfererFrames[1].st)
         IN  IF EntryBelow(interfererFrames, interferers, freqIndex, threshold)
             THEN [outcome |-> "true", frames |-> interfererFrames, applied |-> <<>>]
             ELSE IF ~CountsConsistent(interfererFrames, interferers, analogueModelCount)
             THEN [outcome |-> "assert", frames |-> interfererFrames, applied |-> <<>>]
             ELSE applyStages(interfererFrames, interferers, freqIndex, threshold,
                              analogueModelCount, 1, <<>>)

\* ------------------------------------------------------------- getMinSINR
\* Signal::applyAllAnalogueModels: the stages not applied yet are applied
RECURSIVE applyAllAnalogueModels(_)
applyAllAnalogueModels(signal) ==
    IF signal.ap >= Len(signal.st) THEN signal
    ELSE applyAllAnalogueModels(
             [signal EXCEPT !.pw = Attenuate(signal.pw, signal.st[signal.ap + 1]),
                            !.ap = signal.ap + 1])

\* A ratio of doubles is kept as [num, den]; den = 0 with num > 0 is +infinity
\* and 0/0 is a NaN, which compares false with everything.
RatioLess(x, y) == x.num * y.den < y.num * x.den
RatioEqual(x, y) == x.num * y.den = y.num * x.den /\ (x.den = 0 <=> y.den = 0)

\* the loop over the signal's bins: min_sinr = std::min(min_sinr, sinr.at(i))
RECURSIVE minRatioFrom(_, _, _, _, _)
minRatioFrom(signal, interference, noise, i, min_sinr) ==
    IF i > Len(signal) THEN min_sinr
    ELSE LET sinr == [num |-> signal[i], den |-> interference[i] + noise]
         IN  minRatioFrom(signal, interference, noise, i + 1,
                          IF RatioLess(sinr, min_sinr) THEN sinr ELSE min_sinr)

\* a slip: the window is compared with the reception interval after the
\* stages have been applied
getMinSINRCheckedLate(start, end, signalFrame, interfererFrames, noise) ==
    LET signal == applyAllAnalogueModels(signalFrame)
        interferers == [i \in DOMAIN interfererFrames |->
                           applyAllAnalogueModels(interfererFrames[i])]
        interference == getMaxInterference(start, end, signal, interferers)
    IN  IF ~(start >= signal.rs /\ end <= signal.re)
        THEN [outcome |-> "assert", value |-> [num |-> 0, den |-> 0],
              reference |-> signal, frames |-> interferers]
        ELSE [outcome |-> interference.outcome,
              value |-> IF interference.outcome = "ok"
                        THEN minRatioFrom(signal.pw, interference.value, noise, 1,
                                          [num |-> 1, den |-> 0])
                        ELSE [num |-> 0, den |-> 0],
              reference |-> signal, frames |-> interferers]

\* outcome "ok": value is the minimum SINR; "assert": an ASSERT failed.
\* reference and frames are the signals as the call leaves them.
getMinSINR(start, end, signalFrame, interfererFrames, noise) ==
    IF ~(start >= signalFrame.rs /\ end <= signalFrame.re)
    THEN [outcome |-> "assert", value |-> [num |-> 0, den |-> 0],
          reference |-> signalFrame, frames |-> interfererFrames]
    ELSE LET signal == applyAllAnalogueModels(signalFrame)
             interferers == [i \in DOMAIN interfererFrames |->
                                applyAllAnalogueModels(interfererFrames[i])]
             interference == getMaxInterference(start, end, signal, interferers)
         IN  [outcome |-> interference.outcome,
              value |-> IF interference.outcome = "ok"
                        THEN minRatioFrom(signal.pw, interference.value, noise, 1,
                                          [num |-> 1, den |-> 0])
                        ELSE [num |-> 0, den |-> 0],
              reference |-> signal, frames |-> interferers]

\* ------------------------------------------------------------- the inputs
Signals(n) == [id : {1}, rs : Times, re : Times, pw : [1..n -> Powers], st : {<<>>}, ap : {0}]

SweepFrames(n) ==
    UNION {[1..k -> {s \in Signals(n) : s.rs < s.re}] : k \in 0..MaxFrames}

NoResult == [value |-> 0]

DoneWith(name) == pc = "done" /\ op = name

InitSweep ==
    /\ numFreqs \in Spectra
    /\ frames \in SweepFrames(numFreqs)
    /\ query \in {[start |-> s, end |-> e] : s \in Times, e \in Times}
    /\ query.start <= query.end
    /\ pc = "ready"
    /\ op = "none"
    /\ entry = <<>>
    /\ result = NoResult

CallGetGlobalMax ==
    /\ pc = "ready"
    /\ \E r \in getGlobalMaxRuns(query.start, query.end, frames) :
           result' = r
    /\ pc' = "done"
    /\ op' = "getGlobalMax"
    /\ entry' = frames
    /\ UNCHANGED <<numFreqs, frames, query>>

CallGetGlobalMin ==
    /\ pc = "ready"
    /\ \E r \in getGlobalMinRuns(query.start, query.end, frames) :
           result' = r
    /\ pc' = "done"
    /\ op' = "getGlobalMin"
    /\ entry' = frames
    /\ UNCHANGED <<numFreqs, frames, query>>

NextSweep == CallGetGlobalMax \/ CallGetGlobalMin

SpecSweep == InitSweep /\ [][NextSweep]_vars

\* ------------------------------------------------ the three sweeps' inputs
ExtremaPowers == {<<1, 2>>, <<2, 1>>}      \* the samples of a signal on two bins

ExtremaSignals ==
    {s \in [id : {1}, rs : Times, re : Times, pw : ExtremaPowers, st : {<<>>}, ap : {0}] :
        s.rs < s.re}

InitExtrema ==
    /\ numFreqs = 2
    /\ frames \in UNION {[1..k -> ExtremaSignals] : k \in 0..MaxFrames}
    /\ query \in {[start |-> s, end |-> e, freqIndex |-> 0, exclude |-> 0] :
                      s \in Times, e \in Times}
    /\ query.start <= query.end
    /\ pc = "ready"
    /\ op = "none"
    /\ entry = <<>>
    /\ result = NoResult

\* freqIndex is a bin of the spectrum; exclude is a frame of the collection
\* or a null pointer (0)
CallGetMinAtFreqIndex ==
    /\ pc = "ready"
    /\ \E freqIndex \in 1..numFreqs, exclude \in 0..Len(frames) :
           /\ query' = [query EXCEPT !.freqIndex = freqIndex, !.exclude = exclude]
           /\ \E r \in getMinAtFreqIndexRuns(query.start, query.end, frames, freqIndex,
                                              exclude) :
                  result' = r
    /\ pc' = "done"
    /\ op' = "getMinAtFreqIndex"
    /\ entry' = frames
    /\ UNCHANGED <<numFreqs, frames>>

\* the same call once more, on the collection as the first call left it
CallGetGlobalMaxAgain ==
    /\ DoneWith("getGlobalMax")
    /\ \E r \in getGlobalMaxRuns(query.start, query.end, frames) :
           result' = [value |-> r.value, first |-> result.value]
    /\ pc' = "again"
    /\ UNCHANGED <<numFreqs, frames, query, op, entry>>

CallGetGlobalMinAgain ==
    /\ DoneWith("getGlobalMin")
    /\ \E r \in getGlobalMinRuns(query.start, query.end, frames) :
           result' = [value |-> r.value, first |-> result.value]
    /\ pc' = "again"
    /\ UNCHANGED <<numFreqs, frames, query, op, entry>>

CallGetMinAtFreqIndexAgain ==
    /\ DoneWith("getMinAtFreqIndex")
    /\ \E r \in getMinAtFreqIndexRuns(query.start, query.end, frames, query.freqIndex,
                                       query.exclude) :
           result' = [value |-> r.value, first |-> result.value]
    /\ pc' = "again"
    /\ UNCHANGED <<numFreqs, frames, query, op, entry>>

NextExtrema ==
    \/ CallGetGlobalMax
    \/ CallGetGlobalMin
    \/ CallGetMinAtFreqIndex
    \/ CallGetGlobalMaxAgain
    \/ CallGetGlobalMinAgain
    \/ CallGetMinAtFreqIndexAgain

SpecExtrema == InitExtrema /\ [][NextExtrema]_vars

\* the three sweeps, called once, on signals and windows of a shorter time
\* range
OrderTimes == 0..2

OrderSignals ==
    {s \in [id : {1}, rs : OrderTimes, re : OrderTimes, pw : ExtremaPowers, st : {<<>>},
            ap : {0}] : s.rs < s.re}

InitOrderings ==
    /\ numFreqs = 2
    /\ frames \in UNION {[1..k -> OrderSignals] : k \in 0..MaxFrames}
    /\ query \in {[start |-> s, end |-> e, freqIndex |-> 0, exclude |-> 0] :
                      s \in OrderTimes, e \in OrderTimes}
    /\ query.start <= query.end
    /\ pc = "ready"
    /\ op = "none"
    /\ entry = <<>>
    /\ result = NoResult

NextOrderings ==
    \/ CallGetGlobalMax
    \/ CallGetGlobalMin
    \/ CallGetMinAtFreqIndex

SpecOrderings == InitOrderings /\ [][NextOrderings]_vars

\* ------------------------------------------------ the threshold test's inputs
StageCounts == 0..2        \* lengths of a signal's list of attenuation stages
StageAmounts == {1}        \* what one stage takes off
Slots == {0, 1}            \* a frame is received during [slot, slot + 1)
Thresholds == 0..3

StageLists == UNION {[1..n -> StageAmounts] : n \in StageCounts}

ThresholdSignals(n) ==
    {[id |-> 1, rs |-> t, re |-> t + 1, pw |-> p, st |-> l, ap |-> 0] :
        t \in Slots, p \in [1..n -> Powers], l \in StageLists}

InitThreshold ==
    /\ numFreqs = 2
    /\ frames \in UNION {[1..k -> ThresholdSignals(numFreqs)] : k \in 0..MaxFrames}
    /\ query \in {[now |-> t, freqIndex |-> f, threshold |-> th, exclude |-> x] :
                      t \in Slots, f \in 1..numFreqs, th \in Thresholds, x \in 0..MaxFrames}
    /\ query.exclude <= Len(frames)
    /\ pc = "ready"
    /\ op = "none"
    /\ entry = <<>>
    /\ result = NoResult

CallIsChannelPowerBelowThreshold ==
    /\ pc = "ready"
    /\ LET r == isChannelPowerBelowThreshold(query.now, frames, query.freqIndex,
                                             query.threshold, query.exclude)
       IN  /\ result' = [outcome |-> r.outcome, applied |-> r.applied]
           /\ frames' = r.frames
    /\ pc' = "done"
    /\ op' = "isChannelPowerBelowThreshold"
    /\ entry' = frames
    /\ UNCHANGED <<numFreqs, query>>

NextThreshold == CallIsChannelPowerBelowThreshold

SpecThreshold == InitThreshold /\ [][NextThreshold]_vars

\* ------------------------------------------------ getMaxInterference's inputs
TreeIds == {1, 2}

InterfererSignals(n) ==
    {s \in [id : TreeIds, rs : Times, re : Times, pw : [1..n -> Powers], st : {<<>>}, ap : {0}] :
        s.rs < s.re}

\* the reference frame: tree id 1, received during the whole time range
ReferenceFrame(n) ==
    [id |-> 1, rs |-> 0, re |-> SetMax(Times), pw |-> [b \in 1..n |-> 1], st |-> <<>>, ap |-> 0]

InitInterference ==
    /\ numFreqs = 2
    /\ frames \in UNION {[1..k -> InterfererSignals(numFreqs)] : k \in 0..MaxFrames}
    /\ query \in {[start |-> s, end |-> e, reference |-> ReferenceFrame(numFreqs)] :
                      s \in Times, e \in Times}
    /\ query.start <= query.end
    /\ pc = "ready"
    /\ op = "none"
    /\ entry = <<>>
    /\ result = NoResult

CallGetMaxInterference ==
    /\ pc = "ready"
    /\ result' = getMaxInterference(query.start, query.end, query.reference, frames)
    /\ pc' = "done"
    /\ op' = "getMaxInterference"
    /\ entry' = frames
    /\ UNCHANGED <<numFreqs, frames, query>>

NextInterference == CallGetMaxInterference

SpecInterference == InitInterference /\ [][NextInterference]_vars

\* the same call on signals that may have no duration (receptionStart =
\* receptionEnd), on a spectrum of one bin
AnyInterfererSignals ==
    {s \in [id : TreeIds, rs : Times, re : Times, pw : [1..1 -> Powers], st : {<<>>}, ap : {0}] :
        s.rs <= s.re}

InitInterferenceAny ==
    /\ numFreqs = 1
    /\ frames \in UNION {[1..k -> AnyInterfererSignals] : k \in 0..MaxFrames}
    /\ query \in {[start |-> s, end |-> e, reference |-> ReferenceFrame(numFreqs)] :
                      s \in Times, e \in Times}
    /\ query.start <= query.end
    /\ pc = "ready"
    /\ op = "none"
    /\ entry = <<>>
    /\ result = NoResult

SpecInterferenceAny == InitInterferenceAny /\ [][NextInterference]_vars

\* ------------------------------------------------------ getMinSINR's inputs
SinrTimes == 0..2          \* reception and query times of the SINR calls
SinrStageLists == {<<>>, <<1>>}
Noises == {0, 1}

SinrSignals(ids, powers) ==
    {s \in [id : ids, rs : SinrTimes, re : SinrTimes, pw : [1..1 -> powers],
            st : SinrStageLists, ap : {0}] : s.rs < s.re}

\* query.reference is the signal frame as it is handed to the call;
\* result.reference is the frame as the call leaves it
InitSINR ==
    /\ numFreqs = 1
    /\ frames \in UNION {[1..k -> SinrSignals(TreeIds, Powers)] : k \in 0..MaxFrames}
    /\ query \in {[start |-> s, end |-> e, reference |-> r, noise |-> n] :
                      s \in SinrTimes, e \in SinrTimes, r \in SinrSignals({1}, {2}), n \in Noises}
    /\ query.start <= query.end
    /\ pc = "ready"
    /\ op = "none"
    /\ entry = <<>>
    /\ result = NoResult

CallGetMinSINR ==
    /\ pc = "ready"
    /\ LET r == getMinSINR(query.start, query.end, query.reference, frames, query.noise)
       IN  /\ result' = [outcome |-> r.outcome, value |-> r.value, reference |-> r.reference]
           /\ frames' = r.frames
    /\ pc' = "done"
    /\ op' = "getMinSINR"
    /\ entry' = frames
    /\ UNCHANGED <<numFreqs, query>>

NextSINR == CallGetMinSINR

SpecSINR == InitSINR /\ [][NextSINR]_vars

\* --------------------------------------------- the aggregate interference
\* the frames whose signal is active at t: receptionStart <= t < receptionEnd
ActiveAt(frs, t) == {i \in DOMAIN frs : frs[i].rs <= t /\ t < frs[i].re}

RECURSIVE SumOver(_, _, _)
SumOver(frs, S, n) ==
    IF S = {} THEN ZeroSignal(n)
    ELSE LET i == CHOOSE j \in S : TRUE
         IN  SigAdd(frs[i].pw, SumOver(frs, S \ {i}, n))

\* ---------------------------------------------------------------- C1
\* C1 as stated: for start < end, getGlobalMax returns the maximum over the
\* instants t of [start, end] of the largest per-bin total power of the
\* signals active at t.
C1_AsStated ==
    (DoneWith("getGlobalMax") /\ query.start < query.end /\ frames # <<>>) =>
        result.value = SetMax({getMax(SumOver(frames, ActiveAt(frames, t), numFreqs)) :
                                   t \in query.start..query.end})

\* C1 (amended): for start < end, getGlobalMax returns the maximum over the
\* instants t of [start, end] of the largest per-bin total power of the
\* signals that are active at t and start before end.
C1_GlobalMax ==
    (DoneWith("getGlobalMax") /\ query.start < query.end) =>
        result.value =
            SetMax({getMax(SumOver(frames,
                                   {i \in ActiveAt(frames, t) : frames[i].rs < query.end},
                                   numFreqs)) : t \in query.start..query.end})

\* two signals overlap inside the window, a third instant of the window has
\* only one of them, and the maximum is the sum of both
C1_Witness ==
    /\ DoneWith("getGlobalMax") /\ query.start < query.end
    /\ Len(frames) = 2
    /\ frames[1].rs < frames[2].rs /\ frames[2].rs < frames[1].re
    /\ frames[1].re < frames[2].re
    /\ query.start <= frames[1].rs /\ frames[2].re <= query.end
    /\ result.value = getMax(SigAdd(frames[1].pw, frames[2].pw))

\* ---------------------------------------------------------------- C2
\* the example with one time unit for five: A = [0,2) of power 1 and
\* B = [1,3) of power 2 on a one-bin spectrum, window from 0 to 3
C2_Example ==
    <<[id |-> 1, rs |-> 0, re |-> 2, pw |-> <<1>>, st |-> <<>>, ap |-> 0],
      [id |-> 1, rs |-> 1, re |-> 3, pw |-> <<2>>, st |-> <<>>, ap |-> 0]>>

\* C2: for start < end, getGlobalMin returns the smallest value the aggregate
\* interference (the sum of the signals active on [receptionStart,
\* receptionEnd)) takes over the window [start, end); for A = [0,10) of power
\* 1 and B = [5,15) of power 2 the minimum over [0,15) is 1.
C2_GlobalMin ==
    /\ (DoneWith("getGlobalMin") /\ query.start < query.end /\ frames # <<>>) =>
           result.value = SetMin({getDataMin(SumOver(frames, ActiveAt(frames, t), numFreqs)) :
                                      t \in query.start..(query.end - 1)})
    /\ (pc = "done" /\ frames = C2_Example /\ query.start = 0 /\ query.end = 3) =>
           /\ op = "getGlobalMax" => result.value = 3
           /\ op = "getGlobalMin" => result.value = 1

\* ---------------------------------------------------------------- C3
\* C3: with a single signal of constant power p received from s to e, and a
\* window start <= end with s <= start and end <= e, getGlobalMax and
\* getGlobalMin both return p.
C3_SingleSignal ==
    ((DoneWith("getGlobalMax") \/ DoneWith("getGlobalMin"))
        /\ Len(frames) = 1
        /\ (\A b \in 1..numFreqs : frames[1].pw[b] = frames[1].pw[1])
        /\ frames[1].rs <= query.start /\ query.start <= query.end
        /\ query.end <= frames[1].re) =>
        result.value = frames[1].pw[1]

\* ------------------------------------------------- the threshold test, C5..C10
\* the frames the test considers: active at now and not the excluded one
Surviving(frs, now, exclude) ==
    {i \in DOMAIN frs : frs[i].rs <= now /\ now < frs[i].re /\ i # exclude}

\* a signal's samples once its first k stages have been applied
RECURSIVE AttenuatedBy(_, _)
AttenuatedBy(signal, k) ==
    IF k = 0 THEN signal.pw ELSE Attenuate(AttenuatedBy(signal, k - 1), signal.st[k])

\* the sum at bin f of the signals S of frs after k stages
RECURSIVE SumAfter(_, _, _, _)
SumAfter(frs, S, f, k) ==
    IF S = {} THEN 0
    ELSE LET i == CHOOSE j \in S : TRUE
         IN  AttenuatedBy(frs[i], k)[f] + SumAfter(frs, S \ {i}, f, k)

EntrySurvivors == Surviving(entry, query.now, query.exclude)

\* C5: isChannelPowerBelowThreshold returns true whenever no frame of the
\* collection is both active at now and different from the excluded frame,
\* whatever the threshold and the collection.
C5_NoInterferers ==
    (DoneWith("isChannelPowerBelowThreshold") /\ EntrySurvivors = {}) =>
        result.outcome = "true"

\* C6: when the surviving signals' sum at the target bin is below the
\* threshold on entry, the call returns true, applies no stage and leaves
\* every signal as it was.
C6_FirstCheck ==
    (DoneWith("isChannelPowerBelowThreshold")
        /\ SumAfter(entry, EntrySurvivors, query.freqIndex, 0) < query.threshold) =>
        /\ result.outcome = "true"
        /\ result.applied = <<>>
        /\ frames = entry

\* the first check succeeded for two surviving signals that carry stages
C6_Witness ==
    /\ DoneWith("isChannelPowerBelowThreshold")
    /\ Cardinality(EntrySurvivors) = 2
    /\ \A i \in EntrySurvivors : Len(entry[i].st) = 2
    /\ SumAfter(entry, EntrySurvivors, query.freqIndex, 0) < query.threshold
    /\ result.outcome = "true"

\* the stage indices after which the sum is below the threshold (0: on entry)
BelowAfter(N) ==
    {k \in 0..N : SumAfter(entry, EntrySurvivors, query.freqIndex, k) < query.threshold}

\* the collection once stages 1..k have been applied to the surviving signals
EntryAfter(k) ==
    [i \in DOMAIN entry |->
        IF i \in EntrySurvivors
        THEN [entry[i] EXCEPT !.pw = AttenuatedBy(entry[i], k), !.ap = k]
        ELSE entry[i]]

AppliedPairs == {result.applied[j] : j \in DOMAIN result.applied}

C7_Body(N) ==
    IF BelowAfter(N) # {}
    THEN /\ result.outcome = "true"
         /\ frames = EntryAfter(SetMin(BelowAfter(N)))
         /\ AppliedPairs = EntrySurvivors \X (1..SetMin(BelowAfter(N)))
    ELSE /\ result.outcome = "false"
         /\ frames = EntryAfter(N)
         /\ AppliedPairs = EntrySurvivors \X (1..N)

\* C7 as stated: with N stages on every frame, the call returns true exactly
\* when the surviving signals' sum is below the threshold on entry or after
\* stages 0..k for some k < N, having applied the stages up to the smallest
\* such k and no more; it returns false exactly when the sum is >= threshold
\* on entry and after each of the N stages; the final assertion never fails.
C7_AsStated ==
    \A N \in StageCounts :
        (DoneWith("isChannelPowerBelowThreshold")
            /\ \A i \in DOMAIN entry : Len(entry[i].st) = N) => C7_Body(N)

\* C7 (amended): the same for a collection that is not empty; for the empty
\* collection the call returns true whatever the threshold.
C7_Stages ==
    /\ \A N \in StageCounts :
           (DoneWith("isChannelPowerBelowThreshold") /\ entry # <<>>
               /\ \A i \in DOMAIN entry : Len(entry[i].st) = N) => C7_Body(N)
    /\ (DoneWith("isChannelPowerBelowThreshold") /\ entry = <<>>) =>
           (result.outcome = "true" /\ result.applied = <<>> /\ frames = entry)

\* two surviving signals, two stages each: the first stage leaves the sum at
\* or above the threshold, the second brings it below
C7_Witness ==
    /\ DoneWith("isChannelPowerBelowThreshold")
    /\ Cardinality(EntrySurvivors) = 2
    /\ \A i \in DOMAIN entry : Len(entry[i].st) = 2
    /\ BelowAfter(2) = {2}
    /\ result.outcome = "true"

\* C10 as stated: the call ends in a consistency error whenever the surviving
\* signals do not all carry the same number of stages.
C10_AsStated ==
    (DoneWith("isChannelPowerBelowThreshold")
        /\ \E i, j \in EntrySurvivors : Len(entry[i].st) # Len(entry[j].st)) =>
        result.outcome = "assert"

\* C10 (amended): the call ends in a consistency error whenever the surviving
\* signals do not all carry the same number of stages and their sum at the
\* target bin is not below the threshold on entry; no stage has been applied.
C10_StageCounts ==
    (DoneWith("isChannelPowerBelowThreshold")
        /\ (\E i, j \in EntrySurvivors : Len(entry[i].st) # Len(entry[j].st))
        /\ SumAfter(entry, EntrySurvivors, query.freqIndex, 0) >= query.threshold) =>
        (result.outcome = "assert" /\ frames = entry)

\* two surviving signals with one and two stages, the first frame among them
C10_Witness ==
    /\ DoneWith("isChannelPowerBelowThreshold")
    /\ EntrySurvivors = {1, 2}
    /\ Len(entry[1].st) = 1 /\ Len(entry[2].st) = 2
    /\ query.threshold > 0
    /\ result.outcome = "assert"

\* ------------------------------------------------ getMaxInterference, C4, C9
SortedByStart(frs) == \A i, j \in DOMAIN frs : i < j => frs[i].rs <= frs[j].rs

\* the interferers of another tree id than the reference
Others(frs, referenceId) == {i \in DOMAIN frs : frs[i].id # referenceId}

\* per bin, the largest sum over the instants of [start, end] of the signals
\* of S active at the instant
Envelope(frs, S, start, end, n) ==
    [b \in 1..n |-> SetMax({SumOver(frs, S \cap ActiveAt(frs, t), n)[b] : t \in start..end})]

\* C4 as stated: for interferers in ascending order of reception start,
\* getMaxInterference returns per bin the maximum over the instants t of
\* [start, end] of the summed power of the interferers active at t that do
\* not share the reference frame's tree id.
C4_AsStated ==
    (DoneWith("getMaxInterference") /\ SortedByStart(frames)) =>
        /\ result.outcome = "ok"
        /\ result.value = Envelope(frames, Others(frames, query.reference.id),
                                   query.start, query.end, numFreqs)

\* C4 (amended): the same over the interferers whose reception starts before
\* end; an interferer that starts exactly at end is not counted.
C4_MaxInterference ==
    (DoneWith("getMaxInterference") /\ SortedByStart(frames)) =>
        /\ result.outcome = "ok"
        /\ result.value =
               Envelope(frames,
                        {i \in Others(frames, query.reference.id) : frames[i].rs < query.end},
                        query.start, query.end, numFreqs)

\* two interferers overlap in the window, the first ends before the second,
\* and some bin's maximum is the sum of both
C4_Witness ==
    /\ DoneWith("getMaxInterference") /\ Len(frames) = 2
    /\ Others(frames, query.reference.id) = {1, 2}
    /\ query.start <= frames[1].rs /\ frames[1].rs < frames[2].rs
    /\ frames[2].rs < frames[1].re /\ frames[1].re < frames[2].re
    /\ frames[2].re <= query.end
    /\ result.outcome = "ok"
    /\ result.value = SigAdd(frames[1].pw, frames[2].pw)

\* C9 as stated: if a frame of the collection starts earlier than a frame
\* placed before it, the call ends in an assertion failure.
C9_AsStated ==
    (DoneWith("getMaxInterference")
        /\ \E i, j \in DOMAIN frames : i < j /\ frames[j].rs < frames[i].rs) =>
        result.outcome = "assert"

\* the frames the loop does not skip
Considered ==
    {i \in Others(frames, query.reference.id) :
        frames[i].re > query.start /\ frames[i].rs <= query.end}

\* j is considered, starts earlier than the considered frame before it, and
\* no considered frame before it starts at or after end
OutOfOrderAt(j) ==
    /\ j \in Considered
    /\ \E i \in Considered :
           /\ i < j /\ frames[j].rs < frames[i].rs
           /\ \A k \in Considered : ~(i < k /\ k < j)
    /\ \A k \in Considered : k < j => frames[k].rs < query.end

\* C9 (amended): the call ends in an assertion failure exactly when a frame
\* it considers (another tree id than the reference, receptionEnd > start,
\* receptionStart <= end, no considered frame before it starting at or after
\* end) starts earlier than the considered frame before it.
C9_OutOfOrder ==
    DoneWith("getMaxInterference") =>
        ((result.outcome = "assert") <=> (\E j \in DOMAIN frames : OutOfOrderAt(j)))

C9_Witness ==
    /\ DoneWith("getMaxInterference") /\ Len(frames) = 2
    /\ OutOfOrderAt(2)
    /\ result.outcome = "assert"

\* ------------------------------------------------------------------ C11
\* C11: when start is earlier than the reference signal's reception start or
\* end is later than its reception end, getMinSINR ends in an assertion
\* failure, and neither the reference signal nor any interferer has had a
\* stage applied: all signals are as they were on entry.
C11_WindowOutside ==
    (DoneWith("getMinSINR")
        /\ (query.start < query.reference.rs \/ query.end > query.reference.re)) =>
        /\ result.outcome = "assert"
        /\ result.reference = query.reference
        /\ frames = entry

\* the window ends after the reference signal, and the reference signal and
\* an interferer each carry a stage that has not been applied
C11_Witness ==
    /\ DoneWith("getMinSINR")
    /\ query.reference.rs <= query.start /\ query.end > query.reference.re
    /\ query.reference.st # <<>>
    /\ \E i \in DOMAIN entry : entry[i].st # <<>> /\ entry[i].id # query.reference.id
    /\ result.outcome = "assert"

\* ------------------------------------------------------------------ C12
Sweeps == {"getGlobalMax", "getGlobalMin", "getMinAtFreqIndex"}

\* C12: getGlobalMax, getGlobalMin and getMinAtFreqIndex leave every signal
\* (power vector, reception times, stage list) as it was, and the same call
\* made a second time returns the value the first call returned.
C12_Idempotent ==
    /\ (pc \in {"done", "again"} /\ op \in Sweeps) => frames = entry
    /\ (pc = "again" /\ op \in Sweeps) => result.value = result.first

\* getMinAtFreqIndex was called twice on two signals, one ending inside the
\* window at the instant the other starts, and returned a power both times
C12_Witness ==
    /\ pc = "again" /\ op = "getMinAtFreqIndex"
    /\ Len(frames) = 2 /\ query.exclude = 0
    /\ frames[1].re = frames[2].rs
    /\ query.start < frames[1].re /\ frames[2].re > query.end
    /\ result.first > 0 /\ result.value = result.first

\* ------------------------------------------------------------------ C13
\* the signals C13 counts at start: not excluded, and active at start or, in
\* a point query, starting at start
AtStart ==
    {i \in DOMAIN frames :
        /\ i # query.exclude
        /\ \/ frames[i].rs <= query.start /\ query.start < frames[i].re
           \/ query.start = query.end /\ frames[i].rs = query.start}

\* C13: in the three sweeps every change the first loop consumes (time <=
\* start) is a Starting change, and when the first loop has ended the
\* accumulator is the sum of the signals counted at start.
C13_PreRoll ==
    (pc = "done" /\ op \in Sweeps) =>
        /\ \A k \in 1..result.consumed :
               /\ result.changes[k].type = "starting"
               /\ result.changes[k].time <= query.start
        /\ \A k \in (result.consumed + 1)..Len(result.changes) :
               result.changes[k].time > query.start
        /\ (result.changes # <<>> /\ op # "getMinAtFreqIndex") =>
               result.preroll = SumOver(frames, AtStart, numFreqs)
        /\ (result.changes # <<>> /\ op = "getMinAtFreqIndex") =>
               result.preroll = SumOver(frames, AtStart, numFreqs)[query.freqIndex]

\* getGlobalMin consumed two changes in its first loop: a signal that began
\* before start and one that begins at start; both end in the window
C13_Witness ==
    /\ DoneWith("getGlobalMin") /\ query.start < query.end
    /\ Len(frames) = 2
    /\ frames[1].rs < query.start /\ frames[2].rs = query.start
    /\ frames[1].re < query.end /\ frames[2].re = query.end
    /\ result.consumed = 2 /\ Len(result.changes) = 4
    /\ result.preroll = SigAdd(frames[1].pw, frames[2].pw)

\* ------------------------------------------------------------------ C14
\* the orders a collection of n frames can be handed over in
Orders(n) == {p \in [1..n -> 1..n] : \A i, j \in 1..n : p[i] = p[j] => i = j}

Reordered(frs, p) == [i \in DOMAIN frs |-> frs[p[i]]]

\* where the frame at position x is after the reordering (0: no frame)
PlaceOf(p, x) == IF x = 0 THEN 0 ELSE CHOOSE i \in DOMAIN p : p[i] = x

ChangesOf(i, type) ==
    {k \in DOMAIN result.changes :
        result.changes[k].signal = i /\ result.changes[k].type = type}

\* C15: for start < end, each non-excluded signal has exactly one Starting
\* change, at its reception start, iff receptionStart < end and receptionEnd
\* > start, and then exactly one Ending change, at its reception end, iff
\* receptionEnd <= end; no other change exists. So in the sweep every Ending
\* change is subtracted after the Starting change of its signal was added,
\* no signal is subtracted twice and a signal ending after end is never
\* subtracted.
C15_Changes ==
    (pc = "done" /\ op \in Sweeps /\ query.start < query.end) =>
        \A i \in DOMAIN frames :
            LET kept == i # query.exclude /\ frames[i].rs < query.end
                            /\ frames[i].re > query.start
                starts == ChangesOf(i, "starting")
                ends == ChangesOf(i, "ending")
            IN  /\ Cardinality(starts) = (IF kept THEN 1 ELSE 0)
                /\ Cardinality(ends) = (IF kept /\ frames[i].re <= query.end THEN 1 ELSE 0)
                /\ \A k \in starts : result.changes[k].time = frames[i].rs
                /\ \A k \in ends :
                       /\ result.changes[k].time = frames[i].re
                       /\ k > result.consumed
                       /\ \E j \in starts :
                              j < k /\ result.changes[j].time <= result.changes[k].time

\* getMinAtFreqIndex swept two signals: the first ends inside the window and
\* is subtracted, the second is still received when the window ends and has
\* no Ending change
C15_Witness ==
    /\ DoneWith("getMinAtFreqIndex") /\ query.start < query.end
    /\ Len(frames) = 2 /\ query.exclude = 0
    /\ query.start < frames[1].re /\ frames[1].re < query.end
    /\ frames[2].rs < query.end /\ frames[2].re > query.end
    /\ Cardinality(ChangesOf(1, "ending")) = 1
    /\ ChangesOf(2, "ending") = {}
    /\ Len(result.changes) = 3

\* ------------------------------------------------------------------ C16
\* C16: for a point query start = end = t, getGlobalMax returns the largest
\* sample, and getMinAtFreqIndex the sample at the given bin, of the sum of
\* the non-excluded signals with receptionStart <= t < receptionEnd: a
\* signal that begins at t is counted, a signal that ends at t is not.
C16_PointQuery ==
    /\ (DoneWith("getGlobalMax") /\ query.start = query.end) =>
           result.value = getMax(SumOver(frames, ActiveAt(frames, query.start), numFreqs))
    /\ (DoneWith("getMinAtFreqIndex") /\ query.start = query.end) =>
           result.value =
               SumOver(frames, ActiveAt(frames, query.start) \ {query.exclude},
                       numFreqs)[query.freqIndex]

\* a point query of getGlobalMax at the instant the first signal ends and the
\* second begins: the result is the second signal's largest sample
C16_Witness ==
    /\ DoneWith("getGlobalMax") /\ query.start = query.end
    /\ Len(frames) = 2
    /\ frames[1].rs < query.start /\ frames[1].re = query.start
    /\ frames[2].rs = query.start
    /\ result.changes = <<[signal |-> 2, type |-> "starting", time |-> query.start]>>
    /\ result.value = getMax(frames[2].pw)

\* ------------------------------------------------------------------ C17
\* the frames getMaxInterference has pushed when it updates the maximum for
\* the frame at position i: those up to i that it did not skip
PushedUpTo(i) == {j \in Considered : j <= i}

\* C17: at every update of the per-bin maximum in getMaxInterference the
\* running total is the sum of the signals in the end-time heap, every
\* signal in the heap has receptionEnd > the cursor time, and the heap holds
\* exactly the pushed signals that are still active at the cursor.
C17_RunningTotal ==
    DoneWith("getMaxInterference") =>
        \A k \in DOMAIN result.updates :
            LET u == result.updates[k]
            IN  /\ u.total = SumOver(frames, u.heap, numFreqs)
                /\ \A i \in u.heap : frames[i].re > u.time
                /\ u.heap = {i \in PushedUpTo(u.signal) :
                                frames[i].rs <= u.time /\ u.time < frames[i].re}

\* the first interferer has ended when the second starts: at the second
\* update it has left the heap and the total
C17_Witness ==
    /\ DoneWith("getMaxInterference") /\ result.outcome = "ok"
    /\ Len(frames) = 2 /\ Len(result.updates) = 2
    /\ frames[1].re <= frames[2].rs
    /\ result.updates[1].heap = {1}
    /\ result.updates[2].heap = {2}
    /\ result.updates[2].total = frames[2].pw

\* ------------------------------------------------------------------ C18
\* C18: when every signal of the collection has receptionStart <
\* receptionEnd, the expiry loop of getMaxInterference never looks at the
\* top of an empty heap, and the signal pushed in an iteration is still in
\* the heap when the loop of that iteration has ended.
C18_HeapNeverEmpty ==
    (DoneWith("getMaxInterference")
        /\ \A i \in DOMAIN frames : frames[i].rs < frames[i].re) =>
        /\ result.outcome # "undefined"
        /\ \A k \in DOMAIN result.updates :
               result.updates[k].signal \in result.updates[k].heap

\* the first interferer ends at the instant the second starts: the loop pops
\* the first and stops at the second, which it has just pushed
C18_Witness ==
    /\ DoneWith("getMaxInterference") /\ result.outcome = "ok"
    /\ Len(frames) = 2 /\ Len(result.updates) = 2
    /\ \A i \in DOMAIN frames : frames[i].rs < frames[i].re
    /\ frames[1].re = frames[2].rs
    /\ result.updates[2].signal = 2
    /\ result.updates[2].heap = {2}

\* a signal without duration empties the heap: the loop then reads the top
\* of an empty heap
C18_NoDuration ==
    /\ DoneWith("getMaxInterference")
    /\ \E i \in DOMAIN frames : frames[i].rs = frames[i].re
    /\ result.outcome = "undefined"

\* ------------------------------------------------------------------ C19
\* the stage indices that were applied to some signal
StagesApplied == {result.applied[j][2] : j \in DOMAIN result.applied}

\* C19: in one call of isChannelPowerBelowThreshold the stages are applied in
\* ascending index order from the first on, a stage is applied to every
\* surviving signal before the next stage is applied to any and before the
\* sum is looked at again, no stage is applied twice to a signal, and the
\* signals that are excluded or not active at now are left as they were.
C19_StageOrder ==
    DoneWith("isChannelPowerBelowThreshold") =>
        LET a == result.applied
            K == Cardinality(StagesApplied)
        IN  /\ \A j \in DOMAIN a : a[j][1] \in EntrySurvivors
            /\ StagesApplied = 1..K
            /\ \A j, k \in DOMAIN a : j < k => a[j][2] <= a[k][2]
            /\ \A j, k \in DOMAIN a : j # k => a[j] # a[k]
            /\ \A s \in StagesApplied :
                   {a[j][1] : j \in {k \in DOMAIN a : a[k][2] = s}} = EntrySurvivors
            /\ \A i \in DOMAIN entry \ EntrySurvivors : frames[i] = entry[i]
            /\ \A i \in EntrySurvivors :
                   /\ frames[i].ap = K
                   /\ frames[i].pw = AttenuatedBy(entry[i], K)
            /\ K >= 1 =>
                   /\ \A k \in 0..(K - 1) :
                          SumAfter(entry, EntrySurvivors, query.freqIndex, k) >= query.threshold
                   /\ (result.outcome = "true") <=>
                          SumAfter(entry, EntrySurvivors, query.freqIndex, K) < query.threshold

\* two surviving signals with two stages each: stage 1 was applied to both,
\* then stage 2 to both, and the sum stayed at or above the threshold
C19_Witness ==
    /\ DoneWith("isChannelPowerBelowThreshold")
    /\ EntrySurvivors = {1, 2}
    /\ result.applied = <<(<<1, 1>>), (<<2, 1>>), (<<1, 2>>), (<<2, 2>>)>>
    /\ result.outcome = "false"

\* ------------------------------------------------------------------ C20
\* C20: when all surviving signals of isChannelPowerBelowThreshold carry the
\* same number N of stages, the call raises no consistency error and applies
\* at most N stages, whatever number of stages the first frame of the
\* collection carries when that frame is excluded or not active at now.
C20_SurvivorsOnly ==
    \A N \in StageCounts :
        (DoneWith("isChannelPowerBelowThreshold")
            /\ \A i \in EntrySurvivors : Len(entry[i].st) = N) =>
            /\ result.outcome # "assert"
            /\ StagesApplied \subseteq 1..N

\* ------------------------------------------------------------------- C8
\* the collection without the frames at the positions X
RECURSIVE Without(_, _)
Without(frs, X) ==
    IF frs = <<>> THEN <<>>
    ELSE Without(SubSeq(frs, 1, Len(frs) - 1), X)
             \o (IF Len(frs) \in X THEN <<>> ELSE <<frs[Len(frs)]>>)

\* C8: the excluded (or reference) frame never contributes: the outcome of
\* getMinAtFreqIndex, of isChannelPowerBelowThreshold and of getMinSINR is
\* the outcome of the same call on the collection without the excluded frame.
C8_ExcludedFrame ==
    /\ (DoneWith("getMinAtFreqIndex") /\ query.exclude # 0) =>
           {result.value} \subseteq
               getMinAtFreqIndex(query.start, query.end, Without(entry, {query.exclude}),
                                 query.freqIndex, 0)
    /\ (DoneWith("isChannelPowerBelowThreshold") /\ query.exclude # 0) =>
           result.outcome =
               isChannelPowerBelowThreshold(query.now, Without(entry, {query.exclude}),
                                            query.freqIndex, query.threshold, 0).outcome
    /\ DoneWith("getMinSINR") =>
           LET alone == getMinSINR(query.start, query.end, query.reference,
                                   Without(entry, {i \in DOMAIN entry :
                                                      entry[i].id = query.reference.id}),
                                   query.noise)
           IN  /\ result.outcome = alone.outcome
               /\ result.outcome = "ok" => RatioEqual(result.value, alone.value)

=============================================================================
